---- MODULE Spec2Model ----
(***************************************************************************)
(* Model of the sandboxed bash runner (runBashCommandSandboxed.run) of     *)
(* piece-bash-runner: the engine's asynchronous pipeline                   *)
(* (inspect / pull / create / attach / start / wait / kill), the script it *)
(* composes, and the execution of that script by bash in the container.    *)
(*                                                                         *)
(* A script is a sequence of statements, each the text of one shell        *)
(* statement.  The user's lines are embedded as text, so bash sees no      *)
(* difference between a line of the template and an equal line of the      *)
(* user.  Comment lines and blank lines of the template are left out; a    *)
(* compound statement of the template (the install block, the mount `if`)  *)
(* is one statement.                                                       *)
(*                                                                         *)
(* Three parts are also followed on their own, on wider inputs:            *)
(* cleanedCommand (ComposeSpec), the 'data' handler of the attached stream *)
(* (DemuxSpec) and the standard action runBashCommand.run (StdSpec).       *)
(***************************************************************************)
EXTENDS Integers, Sequences, FiniteSets, TLC

\* ------------------------------------------------------------------ bounds

\* Longest user script, in lines.
MaxLines == 2

\* Longest script text given to cleanedCommand on its own, in lines.
MaxTextLines == 4

\* Most frames on the attached stream, and most chunks they are delivered in,
\* when the 'data' handler is followed on its own.
MaxFrames == 2
MaxChunks == 3

\* ------------------------------------------------------------ request data

\* The lines a user script is made of: an interpreter directive, a command
\* that prints and succeeds, a command that fails, a self-termination, a line
\* equal to the here-document terminator, and a command that never returns.
UserLines == {"#!/bin/bash", "echo hi", "false", "exit 3", "EOF", "sleep infinity"}

Commands == UNION {[1..n -> UserLines] : n \in 1..MaxLines}

\* mountType dropdown: None / NFS / SMB.
MountTypes == {"", "nfs", "smb"}

\* mountSource: absent or a network path.
MountSources == {"", "srv:/x"}

\* mountPoint default.
DefaultMountPoint == "/mnt/network"

AllRequests ==
  [command : Commands, mountType : MountTypes, mountSource : MountSources,
   mountPoint : {DefaultMountPoint}, mountOptions : {""},
   mountUsername : {""}, mountPassword : {""}, runAsRoot : BOOLEAN]

\* The requests the pipeline is followed on: those without a mount (the
\* engine treats a composed script as opaque, with or without a mount stage).
Requests == {r \in AllRequests : r.mountType = "" /\ r.mountSource = ""}

\* ------------------------------------------------------ script composition

\* /^#!.*\n/ : the first line, when it starts with #! and a newline follows.
IsDirective(line) == line = "#!/bin/bash"

RECURSIVE TrimLeft(_)
TrimLeft(ls) ==
  IF ls # <<>> /\ Head(ls) = "" THEN TrimLeft(Tail(ls)) ELSE ls

RECURSIVE TrimRight(_)
TrimRight(ls) ==
  IF ls # <<>> /\ ls[Len(ls)] = "" THEN TrimRight(SubSeq(ls, 1, Len(ls) - 1)) ELSE ls

\* String.prototype.trim on the lines: blank lines at both ends go.
Trim(ls) == TrimRight(TrimLeft(ls))

\* command.replace(/^#!.*\n/, '').trim()
cleanedCommand(command) ==
  Trim(IF Len(command) >= 2 /\ IsDirective(command[1]) THEN Tail(command) ELSE command)

\* if (mountType && mountSource)
HasMount(req) == req.mountType # "" /\ req.mountSource # ""

InstallNfs == "install nfs-common"
InstallCifs == "install cifs-utils"

installPackages(req) ==
  IF req.mountType = "nfs" THEN InstallNfs
  ELSE IF req.mountType = "smb" THEN InstallCifs
  ELSE ""

\* The NFS options with the SMB credentials appended to them.
nfsOptionsWithCredentials(req) ==
  (IF req.mountOptions # "" THEN req.mountOptions ELSE "rw,sync")
    \o (IF req.mountUsername # "" THEN ",username=" \o req.mountUsername ELSE "")

nfsOptions(req) == IF req.mountOptions # "" THEN req.mountOptions ELSE "rw,sync"

smbOptions(req) ==
  LET base == IF req.mountOptions # "" THEN req.mountOptions ELSE "rw"
  IN  IF req.mountUsername # ""
      THEN IF req.mountPassword # ""
           THEN base \o ",username=" \o req.mountUsername \o ",password=" \o req.mountPassword
           ELSE base \o ",username=" \o req.mountUsername
      ELSE base

mountCommand(req) ==
  IF req.mountType = "nfs"
  THEN "mount -t nfs -o " \o nfsOptions(req) \o " " \o req.mountSource \o " " \o req.mountPoint
  ELSE IF req.mountType = "smb"
  THEN "mount -t cifs -o " \o smbOptions(req) \o " " \o req.mountSource \o " " \o req.mountPoint
  ELSE ""

Shebang == "#!/bin/bash"
SetPlusE == "set +e"
CdWorkspace == "cd /workspace"
SuLine == "su - activepieces << 'EOF'"
Terminator == "EOF"

MkdirStmt(req) == "mkdir -p " \o req.mountPoint \o " 2>/dev/null || echo [Warning] >&2"
MountStmt(req) == "if " \o mountCommand(req) \o "; then : ; else echo [Error] >&2; fi"
UmountStmt(req) == "umount " \o req.mountPoint \o " 2>/dev/null || true"

\* The lines of the template before the user's lines, in the user stage.
UserStageHead(req) ==
  IF req.runAsRoot THEN <<CdWorkspace>> ELSE <<SuLine, CdWorkspace>>

UserStageTail(req) ==
  IF req.runAsRoot THEN <<>> ELSE <<Terminator>>

UserStage(req) ==
  UserStageHead(req) \o cleanedCommand(req.command) \o UserStageTail(req)

MountHead(req) ==
  <<Shebang, SetPlusE, installPackages(req), MkdirStmt(req), MountStmt(req)>>

fullScript(req) ==
  IF HasMount(req)
  THEN MountHead(req) \o UserStage(req) \o <<UmountStmt(req)>>
  ELSE <<Shebang, SetPlusE>> \o UserStage(req)

\* Where the template puts things, as positions of the composed script.
UserFirst(req) ==
  (IF HasMount(req) THEN Len(MountHead(req)) ELSE 2) + Len(UserStageHead(req)) + 1

UserLast(req) == UserFirst(req) + Len(cleanedCommand(req.command)) - 1

UserPositions(req) == UserFirst(req)..UserLast(req)

UmountPos(req) == IF HasMount(req) THEN Len(fullScript(req)) ELSE 0

\* ------------------------------------------------------------ output stream

\* The isolation layer's frame: one byte of stream selector, three of padding,
\* four of length, then the payload.
StdoutTag == 1
StderrTag == 2
HeaderLen == 8

Frame(tag, payload) == <<tag, 0, 0, 0, 0, 0, 0, Len(payload)>> \o payload

\* What the statements of the script print, abbreviated to a few bytes each.
HiBytes == <<104, 105, 10>>
WarningBytes == <<87, 10>>
MountErrorBytes == <<69, 10>>
SuErrorBytes == <<115, 117, 10>>
NotFoundBytes == <<63, 10>>

\* data.slice(8)
Slice8(chunk) == SubSeq(chunk, HeaderLen + 1, Len(chunk))

\* ------------------------------------------------------------------- state

VARIABLES
  req,       \* context.propsValue
  image,     \* the image: "unknown", "local", "pulled", or "unresolved"
  pc,        \* where run() is suspended: the await it is at, or how it ended
  thrown,    \* the error run() threw ("" when none)
  result,    \* the object run() returned (<<>> when none)
  stdout,    \* let stdout
  stderr,    \* let stderr
  timer,     \* timeoutHandle: "unset", "armed", "fired" or "cleared"
  calls,     \* the isolation-layer operations invoked so far, in order
  streamQ,   \* chunks of the attached stream not yet given to the 'data' handler
  ctr,       \* the container: "none", "created", "running", "exited", "removed"
  ctrExit,   \* its exit status (-1 while it has none)
  killed,    \* whether a kill ended it
  userUid,   \* uid of the user activepieces in the container (0: no such user)
  ip,        \* the statement of the script bash is at (0: the bootstrap command)
  who,       \* the identity executing it: "root", or "activepieces" inside su
  hereEnd,   \* position of the terminator of the here-document being read (0: none)
  status,    \* $?
  hung,      \* the statement at ip never returns
  mount,     \* how the mount stage went: "pending", "ok", "failed"
  install,   \* how the install stage went: "pending", "ok", "failed", "nopm"
  ran,       \* the statements executed so far: position and identity
  killError, \* what the timer's callback caught from container.kill() ("" when nothing)
  wire,      \* the frames the isolation layer has sent on the attached stream
  embedded,  \* const cleanedCommand (<<>> before it is computed)
  composed,  \* let fullScript (<<>> before it is composed)
  mountCleanup, \* let mountCleanup of the standard action
  execs      \* the standard action's execAsync calls so far: command and outcome

engineVars == <<req, image, pc, thrown, result, stdout, stderr, timer, calls, killError>>
ctrVars == <<ctr, ctrExit, killed, userUid, ip, who, hereEnd, status, hung, mount, install, ran>>
\* State of the parts of the piece that are followed on their own.
otherVars == <<wire, embedded, composed, mountCleanup, execs>>
vars == <<engineVars, streamQ, ctrVars, otherVars>>

Script == fullScript(req)

\* Nothing of the standard action, and no frame sent yet.
OtherInit ==
  /\ wire = <<>>
  /\ mountCleanup = ""
  /\ execs = <<>>

\* run() at its first await: cleanedCommand is computed, inspect is pending.
Init ==
  /\ OtherInit
  /\ req \in Requests
  /\ embedded = cleanedCommand(req.command)
  /\ composed = <<>>
  /\ killError = ""
  /\ image = "unknown"
  /\ pc = "inspect"
  /\ thrown = ""
  /\ result = <<>>
  /\ stdout = <<>>
  /\ stderr = <<>>
  /\ timer = "unset"
  /\ calls = <<"inspect">>
  /\ streamQ = <<>>
  /\ ctr = "none"
  /\ ctrExit = -1
  /\ killed = FALSE
  /\ userUid = 0
  /\ ip = 0
  /\ who = "root"
  /\ hereEnd = 0
  /\ status = 0
  /\ hung = FALSE
  /\ mount = "pending"
  /\ install = "pending"
  /\ ran = <<>>

\* ------------------------------------------------------------------ engine

\* What a rejected isolation-layer call carries: error.message including
\* 'connect ENOENT', error.statusCode 404, or anything else.
ErrKinds == {"ENOENT", "404", "other"}

SocketError == "Docker socket not found"
ImageError == "Docker image not found and could not be pulled"

\* The catch block: which error run() throws for a caught error e.
Catch(e) ==
  IF e = "ENOENT" THEN SocketError
  ELSE IF e = "404" THEN ImageError
  ELSE e

Throw(e) ==
  /\ pc' = "thrown"
  /\ thrown' = Catch(e)

Invoke(op) == calls' = Append(calls, op)

\* docker.getImage(imageName).inspect() resolves: the script is composed and
\* createContainer is invoked.
InspectOk ==
  /\ pc = "inspect"
  /\ image' = "local"
  /\ composed' = fullScript(req)
  /\ pc' = "create"
  /\ Invoke("create")
  /\ UNCHANGED <<wire, embedded, mountCleanup, execs>>
  /\ UNCHANGED <<killError, req, thrown, result, stdout, stderr, timer, streamQ, ctrVars>>

\* inspect rejects (whatever the error): docker.pull is invoked.
InspectFail ==
  /\ pc = "inspect"
  /\ pc' = "pull"
  /\ Invoke("pull")
  /\ UNCHANGED <<otherVars, killError, req, image, thrown, result, stdout, stderr, timer, streamQ, ctrVars>>

\* A pull error swallowed like the inspect error is: the pipeline goes on.
OnPullErrorSwallowed(e) ==
  /\ pc' = "create"
  /\ Invoke("create")
  /\ UNCHANGED thrown

\* What follows a pull that failed with e (docker.pull rejected, or
\* followProgress reported err).
OnPullError(e) == Throw(e) /\ UNCHANGED calls

PullOk ==
  /\ pc = "pull"
  /\ image' = "pulled"
  /\ composed' = fullScript(req)
  /\ pc' = "create"
  /\ Invoke("create")
  /\ UNCHANGED <<wire, embedded, mountCleanup, execs>>
  /\ UNCHANGED <<killError, req, thrown, result, stdout, stderr, timer, streamQ, ctrVars>>

PullFail ==
  /\ pc = "pull"
  /\ image' = "unresolved"
  /\ \E e \in ErrKinds : OnPullError(e)
  /\ UNCHANGED <<otherVars, killError, req, result, stdout, stderr, timer, streamQ, ctrVars>>

CreateOk ==
  /\ pc = "create"
  /\ ctr' = "created"
  /\ pc' = "attach"
  /\ Invoke("attach")
  /\ UNCHANGED <<otherVars, killError, req, image, thrown, result, stdout, stderr, timer, streamQ>>
  /\ UNCHANGED <<ctrExit, killed, userUid, ip, who, hereEnd, status, hung, mount, install, ran>>

CreateFail ==
  /\ pc = "create"
  /\ \E e \in ErrKinds : Throw(e)
  /\ UNCHANGED <<otherVars, killError, req, image, result, stdout, stderr, timer, calls, streamQ, ctrVars>>

AttachOk ==
  /\ pc = "attach"
  /\ pc' = "start"
  /\ Invoke("start")
  /\ UNCHANGED <<otherVars, killError, req, image, thrown, result, stdout, stderr, timer, streamQ, ctrVars>>

\* attach rejects and is tried again.
AttachFailRetried ==
  /\ pc = "attach"
  /\ Invoke("attach")
  /\ UNCHANGED <<otherVars, killError, req, image, pc, thrown, result, stdout, stderr, timer, streamQ, ctrVars>>

\* attach rejects: the container stays as created.
AttachFail ==
  /\ pc = "attach"
  /\ \E e \in ErrKinds : Throw(e)
  /\ UNCHANGED <<otherVars, killError, req, image, result, stdout, stderr, timer, calls, streamQ, ctrVars>>

\* start resolves: the 'data' handler is registered, the timer armed and
\* container.wait() invoked.
StartOk ==
  /\ pc = "start"
  /\ ctr' = "running"
  /\ timer' = "armed"
  /\ pc' = "wait"
  /\ Invoke("wait")
  /\ UNCHANGED <<otherVars, killError, req, image, thrown, result, stdout, stderr, streamQ>>
  /\ UNCHANGED <<ctrExit, killed, userUid, ip, who, hereEnd, status, hung, mount, install, ran>>

\* start rejects: the daemon may or may not have removed the container.
StartFail ==
  /\ pc = "start"
  /\ \E e \in ErrKinds : Throw(e)
  /\ \E c \in {"created", "removed"} : ctr' = c
  /\ UNCHANGED <<otherVars, killError, req, image, result, stdout, stderr, timer, calls, streamQ>>
  /\ UNCHANGED <<ctrExit, killed, userUid, ip, who, hereEnd, status, hung, mount, install, ran>>

\* stream.on('data', chunk => ...)
OnData(chunk) ==
  IF chunk[1] = StdoutTag
  THEN stdout' = stdout \o Slice8(chunk) /\ UNCHANGED stderr
  ELSE IF chunk[1] = StderrTag
  THEN stderr' = stderr \o Slice8(chunk) /\ UNCHANGED stdout
  ELSE stdout' = stdout \o chunk /\ UNCHANGED stderr

\* A 'data' event: the handler is registered once start has resolved, and
\* stays registered after run() has ended.
Data ==
  /\ pc \in {"wait", "returned", "thrown"}
  /\ "wait" \in {calls[i] : i \in 1..Len(calls)}
  /\ streamQ # <<>>
  /\ OnData(Head(streamQ))
  /\ streamQ' = Tail(streamQ)
  /\ UNCHANGED <<otherVars, killError, req, image, pc, thrown, result, timer, calls, ctrVars>>

\* What container.kill() rejects with: the container is not running, or the
\* daemon does not stop a running one.
NotRunning == "container is not running"
KillRejected == "cannot kill container"

\* container.kill() as the daemon answers it: a running container is
\* stopped, unless the daemon rejects the call (accepted false); a container
\* that is not running makes the call fail.
KillOutcome(accepted) ==
  IF ctr = "running" /\ accepted
  THEN ctr' = "exited" /\ ctrExit' = 137 /\ killed' = TRUE /\ UNCHANGED killError
  ELSE /\ killError' = IF ctr = "running" THEN KillRejected ELSE NotRunning
       /\ UNCHANGED <<ctr, ctrExit, killed>>

\* The timer's callback without its try/catch: a kill that fails ends run()
\* with the error.
OnTimeoutPropagating(accepted) ==
  /\ timer = "armed"
  /\ timer' = "fired"
  /\ Invoke("kill")
  /\ KillOutcome(accepted)
  /\ IF ctr = "running" /\ accepted
     THEN UNCHANGED <<pc, thrown>>
     ELSE Throw(IF ctr = "running" THEN KillRejected ELSE NotRunning)
  /\ UNCHANGED <<otherVars, req, image, result, stdout, stderr, streamQ>>
  /\ UNCHANGED <<userUid, ip, who, hereEnd, status, hung, mount, install, ran>>

\* The timer's callback: try { await container.kill() } catch (e) {}.
OnTimeout(accepted) ==
  /\ timer = "armed"
  /\ timer' = "fired"
  /\ Invoke("kill")
  /\ KillOutcome(accepted)
  /\ UNCHANGED <<otherVars, req, image, pc, thrown, result, stdout, stderr, streamQ>>
  /\ UNCHANGED <<userUid, ip, who, hereEnd, status, hung, mount, install, ran>>

\* The timer fires and the kill takes effect, or finds the container stopped.
TimerFire == OnTimeout(TRUE)

\* The timer fires and the daemon rejects the kill of the running container.
TimerFireRejected == ctr = "running" /\ OnTimeout(FALSE)

\* A finally block that leaves the timer as it is.
ClearTimeoutSkipped == UNCHANGED timer

\* finally { clearTimeout(timeoutHandle) }
ClearTimeout == timer' = IF timer = "armed" THEN "cleared" ELSE timer

\* The object run() returns once wait has resolved with exit status code.
MakeResult(code) ==
  [success |-> TRUE, output |-> stdout, stdout |-> stdout, stderr |-> stderr,
   executionTime |-> "now"]

\* container.wait() resolves: the container is no longer running.
WaitOk ==
  /\ pc = "wait"
  /\ ctr \in {"exited", "removed"}
  /\ ClearTimeout
  /\ result' = MakeResult(ctrExit)
  /\ pc' = "returned"
  /\ UNCHANGED <<otherVars, killError, req, image, thrown, stdout, stderr, calls, streamQ, ctrVars>>

\* container.wait() rejects.
WaitFail ==
  /\ pc = "wait"
  /\ ClearTimeout
  /\ \E e \in ErrKinds : Throw(e)
  /\ UNCHANGED <<otherVars, killError, req, image, result, stdout, stderr, calls, streamQ, ctrVars>>

\* --------------------------------------------------------------- container

\* AutoRemove: the daemon deletes the container some time after it has exited.
ContainerRemove ==
  /\ ctr = "exited"
  /\ ctr' = "removed"
  /\ UNCHANGED <<otherVars, engineVars, streamQ>>
  /\ UNCHANGED <<ctrExit, killed, userUid, ip, who, hereEnd, status, hung, mount, install, ran>>

\* The line of the earlier bootstrap command that lets activepieces run
\* mount, umount and the package tools through sudo without a password.
SudoersEntry ==
  "echo 'activepieces ALL=(ALL) NOPASSWD: /bin/mount, /bin/umount, /usr/bin/apt-get, /usr/bin/apt, /usr/bin/dpkg' >> /etc/sudoers"

\* The bootstrap command as it was when the user had sudo privileges.
BootstrapCmdWithSudo ==
  <<"groupadd -g 1000 activepieces || true",
    "useradd -u 1000 -g 1000 -m -s /bin/bash activepieces || true",
    SudoersEntry,
    "mkdir -p /workspace",
    "chown activepieces:activepieces /workspace",
    "base64 -d > /tmp/user_script.sh",
    "chmod +x /tmp/user_script.sh">>

\* The statements of the container's Cmd, run by root before
\* `bash /tmp/user_script.sh`.
BootstrapCmd ==
  <<"export DEBIAN_FRONTEND=noninteractive",
    "apt-get update -qq",
    "apt-get install -y --no-install-recommends coreutils",
    "groupadd -g 1001 activepieces 2>/dev/null || true",
    "useradd -u 1001 -g 1001 -m -s /bin/bash activepieces 2>/dev/null",
    "useradd -u $uid -g activepieces -m -s /bin/bash activepieces 2>/dev/null",
    "mkdir -p /workspace",
    "chown activepieces:activepieces /workspace",
    "base64 -d > /tmp/user_script.sh",
    "chmod +x /tmp/user_script.sh",
    "chown activepieces:activepieces /tmp/user_script.sh">>

\* The commands a statement run by root lets the user activepieces run as
\* root from then on.
Grants(stmt) ==
  IF stmt = SudoersEntry
  THEN {"/bin/mount", "/bin/umount", "/usr/bin/apt-get", "/usr/bin/apt", "/usr/bin/dpkg"}
  ELSE {}

\* What the image holds before the bootstrap command runs: nothing in the
\* way, uid 1001 already in use, a user activepieces already there, or no
\* working useradd.
ImageStates == {"fresh", "uid1001taken", "hasUser", "noUseradd"}

\* if ! id activepieces; then groupadd; useradd -u 1001 || for uid in
\* {1002..1010} ...: the uid of activepieces afterwards (0: no such user).
CreateUser(img) ==
  IF img = "hasUser" THEN 1000
  ELSE IF img = "fresh" THEN 1001
  ELSE IF img = "uid1001taken" THEN 1002
  ELSE 0

\* The container's Cmd up to `bash /tmp/user_script.sh`.
ContainerBootstrap ==
  /\ ctr = "running"
  /\ ip = 0
  /\ \E img \in ImageStates : userUid' = CreateUser(img)
  /\ ip' = 1
  /\ UNCHANGED <<otherVars, engineVars, streamQ>>
  /\ UNCHANGED <<ctr, ctrExit, killed, who, hereEnd, status, hung, mount, install, ran>>

\* The here-document that starts after statement i ends at the first later
\* line equal to the terminator (at the end of the script when there is none).
HeredocEnd(script, i) ==
  LET ends == {j \in (i + 1)..Len(script) : script[j] = Terminator}
  IN  IF ends = {} THEN Len(script) + 1
      ELSE CHOOSE j \in ends : \A k \in ends : j <= k

CanStep == ctr = "running" /\ ip >= 1 /\ ip <= Len(Script) /\ ~hung

Stmt == Script[ip]

Logged == ran' = Append(ran, [i |-> ip, as |-> who])

\* The statement at ip is done with exit status st, having printed frames;
\* the shell of identity id, whose input ends before position end, goes on
\* to position next.  At the end of its input the shell of su ends and root
\* goes on after the terminator with su's status; at the end of the script
\* bash exits with the last status.
GoOn(st, frames, next, id, end) ==
  LET leave == id = "activepieces" /\ next = end
      n == IF leave THEN end + 1 ELSE next
  IN  /\ Logged
      /\ streamQ' = streamQ \o frames
      /\ who' = IF leave THEN "root" ELSE id
      /\ hereEnd' = IF leave THEN 0 ELSE end
      /\ ip' = n
      /\ status' = st
      /\ IF n > Len(Script)
         THEN ctr' = "exited" /\ ctrExit' = st
         ELSE UNCHANGED <<ctr, ctrExit>>

Next1(st, frames) == GoOn(st, frames, ip + 1, who, hereEnd)

\* set +e, cd /workspace.
StepQuiet ==
  /\ CanStep
  /\ Stmt \in {SetPlusE, CdWorkspace}
  /\ Next1(0, <<>>)
  /\ UNCHANGED <<otherVars, engineVars, killed, userUid, hung, mount, install>>

\* A comment line (the only ones here are interpreter directives): bash
\* reads past it, nothing is executed and $? stays.
StepComment ==
  /\ CanStep
  /\ IsDirective(Stmt)
  /\ LET leave == who = "activepieces" /\ ip + 1 = hereEnd
         n == IF leave THEN hereEnd + 1 ELSE ip + 1
     IN  /\ ip' = n
         /\ who' = IF leave THEN "root" ELSE who
         /\ hereEnd' = IF leave THEN 0 ELSE hereEnd
         /\ IF n > Len(Script)
            THEN ctr' = "exited" /\ ctrExit' = status
            ELSE UNCHANGED <<ctr, ctrExit>>
  /\ UNCHANGED <<otherVars, engineVars, streamQ, killed, userUid, status, hung, mount, install, ran>>

\* echo hi
StepEcho ==
  /\ CanStep
  /\ Stmt = "echo hi"
  /\ Next1(0, <<Frame(StdoutTag, HiBytes)>>)
  /\ UNCHANGED <<otherVars, engineVars, killed, userUid, hung, mount, install>>

\* false
StepFalse ==
  /\ CanStep
  /\ Stmt = "false"
  /\ Next1(1, <<>>)
  /\ UNCHANGED <<otherVars, engineVars, killed, userUid, hung, mount, install>>

\* A line EOF met as a command: command not found.
StepNotFound ==
  /\ CanStep
  /\ Stmt = Terminator
  /\ Next1(127, <<Frame(StderrTag, NotFoundBytes)>>)
  /\ UNCHANGED <<otherVars, engineVars, killed, userUid, hung, mount, install>>

\* exit 3: the shell that reads it ends.  The shell of su hands its status to
\* root, which goes on after the terminator; the script's own shell ends the
\* container's command.
StepExit ==
  /\ CanStep
  /\ Stmt = "exit 3"
  /\ IF who = "activepieces"
     THEN GoOn(3, <<>>, hereEnd, who, hereEnd)
     ELSE /\ Logged
          /\ ctr' = "exited"
          /\ ctrExit' = 3
          /\ UNCHANGED <<streamQ, who, hereEnd, ip, status>>
  /\ UNCHANGED <<otherVars, engineVars, killed, userUid, hung, mount, install>>

\* sleep infinity: never returns.
StepSleep ==
  /\ CanStep
  /\ Stmt = "sleep infinity"
  /\ Logged
  /\ hung' = TRUE
  /\ UNCHANGED <<otherVars, engineVars, streamQ>>
  /\ UNCHANGED <<ctr, ctrExit, killed, userUid, ip, who, hereEnd, status, mount, install>>

PackageManagers == {"apt", "apk", "yum", "none"}

\* The warnings of the install block: with apt-get, one for a failed update
\* and one for a failed install; with apk or yum, one for a failed install;
\* with none of them the block does nothing.
InstallFrames(pm, updOk, instOk) ==
  LET w == <<Frame(StderrTag, WarningBytes)>>
  IN  IF pm = "apt"
      THEN (IF updOk THEN <<>> ELSE w) \o (IF instOk THEN <<>> ELSE w)
      ELSE IF pm \in {"apk", "yum"}
      THEN (IF instOk THEN <<>> ELSE w)
      ELSE <<>>

\* installPackages: every command of the block is followed by `|| echo`.
StepInstall ==
  /\ CanStep
  /\ Stmt \in {InstallNfs, InstallCifs}
  /\ \E pm \in PackageManagers, updOk \in BOOLEAN, instOk \in BOOLEAN :
       /\ Next1(0, InstallFrames(pm, updOk, instOk))
       /\ install' = IF pm = "none" THEN "nopm" ELSE IF instOk THEN "ok" ELSE "failed"
  /\ UNCHANGED <<otherVars, engineVars, killed, userUid, hung, mount>>

\* mkdir -p ${mountPoint} 2>/dev/null || echo "[Warning] ..." >&2
StepMkdir ==
  /\ CanStep
  /\ Stmt = MkdirStmt(req)
  /\ \E ok \in BOOLEAN :
       Next1(0, IF ok THEN <<>> ELSE <<Frame(StderrTag, WarningBytes)>>)
  /\ UNCHANGED <<otherVars, engineVars, killed, userUid, hung, mount, install>>

\* The mount statement as `${mountCommand} || exit $?` would behave: a failed
\* mount ends the script.
MountStepAborting(ok) ==
  IF ok
  THEN Next1(0, <<>>) /\ mount' = "ok"
  ELSE /\ Logged
       /\ ctr' = "exited"
       /\ ctrExit' = 32
       /\ mount' = "failed"
       /\ streamQ' = Append(streamQ, Frame(StderrTag, MountErrorBytes))
       /\ UNCHANGED <<who, hereEnd, ip, status>>

\* if ${mountCommand}; then : ; else MOUNT_EXIT=$?; echo "[Error] ..." >&2; fi
\* with the mount command succeeding (ok) or failing.
MountStep(ok) ==
  /\ Next1(0, IF ok THEN <<>> ELSE <<Frame(StderrTag, MountErrorBytes)>>)
  /\ mount' = IF ok THEN "ok" ELSE "failed"

\* if ${mountCommand}; ... fi
StepMount ==
  /\ CanStep
  /\ Stmt = MountStmt(req)
  /\ \E ok \in BOOLEAN : MountStep(ok)
  /\ UNCHANGED <<otherVars, engineVars, killed, userUid, hung, install>>

\* umount ${mountPoint} 2>/dev/null || true: whether it succeeds or fails,
\* nothing is printed and the status is 0.
StepUmount ==
  /\ CanStep
  /\ Stmt = UmountStmt(req)
  /\ Next1(0, <<>>)
  /\ UNCHANGED <<otherVars, engineVars, killed, userUid, hung, mount, install>>

\* su - activepieces << 'EOF': the lines up to the first line EOF are the
\* input of a login shell of activepieces; without that user su fails and
\* the lines are skipped.
StepSu ==
  /\ CanStep
  /\ Stmt = SuLine
  /\ LET end == HeredocEnd(Script, ip)
     IN  IF userUid # 0
         THEN GoOn(0, <<>>, ip + 1, "activepieces", end)
         ELSE GoOn(1, <<Frame(StderrTag, SuErrorBytes)>>, end + 1, "root", 0)
  /\ UNCHANGED <<otherVars, engineVars, killed, userUid, hung, mount, install>>

\* A statement of a script without a mount stage.
PlainStep ==
  \/ StepQuiet
  \/ StepComment
  \/ StepEcho
  \/ StepFalse
  \/ StepNotFound
  \/ StepExit
  \/ StepSleep
  \/ StepSu

\* A statement of the mount stage or the unmount.
MountStageStep ==
  \/ StepInstall
  \/ StepMkdir
  \/ StepMount
  \/ StepUmount

ContainerStep == PlainStep \/ MountStageStep

Done == pc \in {"returned", "thrown"}

\* The pipeline, on the requests without a mount: their scripts have no
\* statement of the mount stage (ScriptSpec below follows those).
Next ==
  \/ InspectOk
  \/ InspectFail
  \/ PullOk
  \/ PullFail
  \/ CreateOk
  \/ CreateFail
  \/ AttachOk
  \/ AttachFail
  \/ StartOk
  \/ StartFail
  \/ Data
  \/ TimerFire
  \/ TimerFireRejected
  \/ WaitOk
  \/ WaitFail
  \/ ContainerRemove
  \/ ContainerBootstrap
  \/ PlainStep

Spec == Init /\ [][Next]_vars

\* What the event loop and the daemon do without fail: the container runs
\* its command as long as it can, an armed timer fires, pending 'data' events
\* are delivered and a wait whose container has stopped resolves.  Rejections
\* of isolation-layer calls are possible, never certain.
Fairness ==
  /\ WF_vars(ContainerBootstrap)
  /\ WF_vars(ContainerStep)
  /\ WF_vars(ContainerRemove)
  /\ WF_vars(TimerFire \/ TimerFireRejected)
  /\ WF_vars(Data)
  /\ WF_vars(WaitOk)
  /\ WF_vars(InspectOk \/ InspectFail)
  /\ WF_vars(PullOk \/ PullFail)
  /\ WF_vars(CreateOk \/ CreateFail)
  /\ WF_vars(AttachOk \/ AttachFail)
  /\ WF_vars(StartOk \/ StartFail)

FairSpec == Spec /\ Fairness

\* ------------------------------------------------------ the script alone

\* The container's side on its own, for every request: the state the
\* pipeline is in when start has resolved (inspect, create, attach and start
\* succeeded, the timer is armed, wait is pending), then the bootstrap
\* command and the composed script, which a kill from the timer may cut short.
ScriptInit ==
  /\ OtherInit
  /\ req \in AllRequests
  /\ embedded = cleanedCommand(req.command)
  /\ composed = fullScript(req)
  /\ killError = ""
  /\ image = "local"
  /\ pc = "wait"
  /\ thrown = ""
  /\ result = <<>>
  /\ stdout = <<>>
  /\ stderr = <<>>
  /\ timer = "armed"
  /\ calls = <<"inspect", "create", "attach", "start", "wait">>
  /\ streamQ = <<>>
  /\ ctr = "running"
  /\ ctrExit = -1
  /\ killed = FALSE
  /\ userUid = 0
  /\ ip = 0
  /\ who = "root"
  /\ hereEnd = 0
  /\ status = 0
  /\ hung = FALSE
  /\ mount = "pending"
  /\ install = "pending"
  /\ ran = <<>>

ScriptNext ==
  \/ ContainerBootstrap
  \/ ContainerStep
  \/ TimerFire

ScriptSpec == ScriptInit /\ [][ScriptNext]_vars

\* ------------------------------------------------ cleanedCommand alone

\* Lines of a script text: an interpreter directive, a command, a blank line.
TextLines == {"#!/bin/bash", "echo hi", ""}

\* A script text as its lines (the text is the lines joined by newlines, so
\* a text that ends with a newline has a blank last line).  The property is
\* required: a text holds at least one line that is not blank.
ScriptTexts ==
  {t \in UNION {[1..n -> TextLines] : n \in 1..MaxTextLines} :
     \E i \in 1..Len(t) : t[i] # ""}

\* run() entered with any script text, nothing computed yet.
ComposeInit ==
  /\ OtherInit
  /\ req \in [command : ScriptTexts, mountType : {""}, mountSource : {""},
              mountPoint : {DefaultMountPoint}, mountOptions : {""},
              mountUsername : {""}, mountPassword : {""}, runAsRoot : {FALSE}]
  /\ embedded = <<>>
  /\ composed = <<>>
  /\ killError = ""
  /\ image = "unknown"
  /\ pc = "compose"
  /\ thrown = ""
  /\ result = <<>>
  /\ stdout = <<>>
  /\ stderr = <<>>
  /\ timer = "unset"
  /\ calls = <<>>
  /\ streamQ = <<>>
  /\ ctr = "none"
  /\ ctrExit = -1
  /\ killed = FALSE
  /\ userUid = 0
  /\ ip = 0
  /\ who = "root"
  /\ hereEnd = 0
  /\ status = 0
  /\ hung = FALSE
  /\ mount = "pending"
  /\ install = "pending"
  /\ ran = <<>>

\* const cleanedCommand = command.replace(/^#!.*\n/, '').trim(); then the
\* try block is entered and inspect invoked.
Compose ==
  /\ pc = "compose"
  /\ embedded' = cleanedCommand(req.command)
  /\ pc' = "inspect"
  /\ Invoke("inspect")
  /\ UNCHANGED <<wire, composed, mountCleanup, execs, streamQ, ctrVars>>
  /\ UNCHANGED <<killError, req, image, thrown, result, stdout, stderr, timer>>

ComposeSpec == ComposeInit /\ [][Compose]_vars

\* --------------------------------------------- the composition of the mount

\* Requests with every combination of mount type, source, options and
\* credentials.
MountRequests ==
  [command : {<<"echo hi">>}, mountType : MountTypes, mountSource : MountSources,
   mountPoint : {DefaultMountPoint}, mountOptions : {"", "ro"},
   mountUsername : {"", "alice"}, mountPassword : {"", "s3cret"},
   runAsRoot : BOOLEAN]

\* run() at its first await, for these requests.
MountInit ==
  /\ OtherInit
  /\ req \in MountRequests
  /\ embedded = cleanedCommand(req.command)
  /\ composed = <<>>
  /\ killError = ""
  /\ image = "unknown"
  /\ pc = "inspect"
  /\ thrown = ""
  /\ result = <<>>
  /\ stdout = <<>>
  /\ stderr = <<>>
  /\ timer = "unset"
  /\ calls = <<"inspect">>
  /\ streamQ = <<>>
  /\ ctr = "none"
  /\ ctrExit = -1
  /\ killed = FALSE
  /\ userUid = 0
  /\ ip = 0
  /\ who = "root"
  /\ hereEnd = 0
  /\ status = 0
  /\ hung = FALSE
  /\ mount = "pending"
  /\ install = "pending"
  /\ ran = <<>>

\* Image resolution and the composition of the script that follows it.
MountNext ==
  \/ InspectOk
  \/ InspectFail
  \/ PullOk
  \/ PullFail

MountSpec == MountInit /\ [][MountNext]_vars

\* ------------------------------------------------ the 'data' handler alone

\* A stream selector that is neither stdout's nor stderr's.
UnknownTag == 3

FrameTags == {StdoutTag, StderrTag, UnknownTag}

FramePayloads == {<<97>>, <<98, 99>>}

Frames == {Frame(t, p) : t \in FrameTags, p \in FramePayloads}

\* What the isolation layer may send: up to MaxFrames frames.
Wires == UNION {[1..n -> Frames] : n \in 1..MaxFrames}

\* The bytes of a sequence of frames, as they travel.
RECURSIVE Flatten(_)
Flatten(frames) ==
  IF frames = <<>> THEN <<>> ELSE Head(frames) \o Flatten(Tail(frames))

\* The bytes cut after the positions cuts[1] < cuts[2] < ...
Chop(bytes, cuts) ==
  [i \in 1..(Len(cuts) + 1) |->
     SubSeq(bytes, IF i = 1 THEN 1 ELSE cuts[i - 1] + 1,
                   IF i = Len(cuts) + 1 THEN Len(bytes) ELSE cuts[i])]

\* Every way the transport may hand the bytes to the handler: up to
\* MaxChunks chunks, none empty, cut anywhere.
Deliveries(bytes) ==
  {Chop(bytes, cuts) :
     cuts \in UNION {{c \in [1..k -> 1..(Len(bytes) - 1)] :
                       \A i \in 1..(k - 1) : c[i] < c[i + 1]} : k \in 0..(MaxChunks - 1)}}

\* wait is pending and the container has written the frames of wire, which
\* are on their way to the handler in some delivery.
DemuxInit ==
  /\ wire \in Wires
  /\ streamQ \in Deliveries(Flatten(wire))
  /\ mountCleanup = ""
  /\ execs = <<>>
  /\ req = [command |-> <<"echo hi">>, mountType |-> "", mountSource |-> "",
            mountPoint |-> DefaultMountPoint, mountOptions |-> "",
            mountUsername |-> "", mountPassword |-> "", runAsRoot |-> TRUE]
  /\ embedded = cleanedCommand(req.command)
  /\ composed = fullScript(req)
  /\ killError = ""
  /\ image = "local"
  /\ pc = "wait"
  /\ thrown = ""
  /\ result = <<>>
  /\ stdout = <<>>
  /\ stderr = <<>>
  /\ timer = "armed"
  /\ calls = <<"inspect", "create", "attach", "start", "wait">>
  /\ ctr = "running"
  /\ ctrExit = -1
  /\ killed = FALSE
  /\ userUid = 0
  /\ ip = 0
  /\ who = "root"
  /\ hereEnd = 0
  /\ status = 0
  /\ hung = FALSE
  /\ mount = "pending"
  /\ install = "pending"
  /\ ran = <<>>

DemuxSpec == DemuxInit /\ [][Data]_vars

\* ---------------------------------------- the standard action (runBashCommand)

StdRequests ==
  [command : Commands, mountType : MountTypes, mountSource : MountSources,
   mountPoint : {DefaultMountPoint}, mountOptions : {""},
   mountUsername : {""}, mountPassword : {""},
   workingDirectory : {"/tmp"}, captureOutput : BOOLEAN]

\* mountCleanup = `umount ${mountPoint} 2>/dev/null || true`
StdMountCleanup(r) == "umount " \o r.mountPoint \o " 2>/dev/null || true"

\* fullCommand, as its lines.
StdFullCommand(r) ==
  IF HasMount(r)
  THEN <<mountCommand(r), "cd " \o r.workingDirectory>> \o r.command
  ELSE <<"cd " \o r.workingDirectory \o " && " \o Head(r.command)>> \o Tail(r.command)

\* How a child process of execAsync may end: it exits with 0, exits with
\* another status, or is killed when the timeout runs out.
ExecOutcomes == {"ok", "failed", "timeout"}

\* execAsync(cmd) is called.
Exec(cmd) == execs' = Append(execs, [cmd |-> cmd, out |-> "pending"])

\* The pending execAsync call settles with outcome out.
Settle(out) == execs' = [execs EXCEPT ![Len(execs)].out = out]

\* The object returned after the try block.
StdSuccess(r, so, se) ==
  IF r.captureOutput
  THEN [success |-> TRUE, output |-> so, stdout |-> so, stderr |-> se,
        executionTime |-> "now"]
  ELSE [success |-> TRUE, output |-> so, executionTime |-> "now"]

\* The object returned by the catch block for the error of outcome out
\* (error.code is the exit status, or null after a kill).
StdFailure(out) ==
  [success |-> FALSE, error |-> out, stdout |-> <<>>, stderr |-> <<>>,
   code |-> IF out = "failed" THEN 3 ELSE 1, executionTime |-> "now"]

\* The standard action's run() is entered; the sandboxed action's state is
\* not used.
StdInit ==
  /\ wire = <<>>
  /\ mountCleanup = ""
  /\ execs = <<>>
  /\ req \in StdRequests
  /\ embedded = <<>>
  /\ composed = <<>>
  /\ killError = ""
  /\ image = "unknown"
  /\ pc = "prepare"
  /\ thrown = ""
  /\ result = <<>>
  /\ stdout = <<>>
  /\ stderr = <<>>
  /\ timer = "unset"
  /\ calls = <<>>
  /\ streamQ = <<>>
  /\ ctr = "none"
  /\ ctrExit = -1
  /\ killed = FALSE
  /\ userUid = 0
  /\ ip = 0
  /\ who = "root"
  /\ hereEnd = 0
  /\ status = 0
  /\ hung = FALSE
  /\ mount = "pending"
  /\ install = "pending"
  /\ ran = <<>>

\* What no step of the standard action touches.
stdUnused ==
  <<wire, embedded, composed, killError, req, image, thrown, timer, calls, streamQ, ctrVars>>

\* The directories exist or are made, the command is composed and handed to
\* execAsync.
StdPrepare ==
  /\ pc = "prepare"
  /\ mountCleanup' = IF HasMount(req) THEN StdMountCleanup(req) ELSE ""
  /\ Exec(StdFullCommand(req))
  /\ pc' = "exec"
  /\ UNCHANGED <<result, stdout, stderr, stdUnused>>

\* mkdirSync throws: the catch block runs with mountCleanup still empty.
StdPrepareFail ==
  /\ pc = "prepare"
  /\ result' = StdFailure("EACCES")
  /\ pc' = "returned"
  /\ UNCHANGED <<mountCleanup, execs, stdout, stderr, stdUnused>>

\* execAsync(fullCommand) resolves: the unmount is called when there is one,
\* else the result is returned.
StdExecOk ==
  /\ pc = "exec"
  /\ \E so \in {<<>>, HiBytes} :
       /\ stdout' = so
       /\ stderr' = <<>>
       /\ IF mountCleanup # ""
          THEN /\ execs' = Append([execs EXCEPT ![Len(execs)].out = "ok"],
                                  [cmd |-> mountCleanup, out |-> "pending"])
               /\ pc' = "cleanup"
               /\ UNCHANGED result
          ELSE /\ Settle("ok")
               /\ result' = StdSuccess(req, so, <<>>)
               /\ pc' = "returned"
  /\ UNCHANGED <<mountCleanup, stdUnused>>

\* execAsync(fullCommand) rejects (non-zero exit, or killed at the timeout):
\* the catch block calls the unmount when there is one, else returns.
StdExecFail ==
  /\ pc = "exec"
  /\ \E out \in ExecOutcomes \ {"ok"} :
       IF mountCleanup # ""
       THEN /\ execs' = Append([execs EXCEPT ![Len(execs)].out = out],
                               [cmd |-> mountCleanup, out |-> "pending"])
            /\ pc' = "catchCleanup"
            /\ UNCHANGED result
       ELSE /\ Settle(out)
            /\ result' = StdFailure(out)
            /\ pc' = "returned"
  /\ UNCHANGED <<mountCleanup, stdout, stderr, stdUnused>>

\* The unmount after the command without its try/catch: when it fails the
\* error reaches the outer catch block, which calls the unmount again.
StdCleanupUncaught ==
  /\ pc = "cleanup"
  /\ \E out \in ExecOutcomes :
       IF out = "ok"
       THEN /\ Settle(out)
            /\ result' = StdSuccess(req, stdout, stderr)
            /\ pc' = "returned"
       ELSE /\ execs' = Append([execs EXCEPT ![Len(execs)].out = out],
                               [cmd |-> mountCleanup, out |-> "pending"])
            /\ pc' = "catchCleanup"
            /\ UNCHANGED result
  /\ UNCHANGED <<mountCleanup, stdout, stderr, stdUnused>>

\* try { await execAsync(mountCleanup) } catch (e) {} after the command
\* succeeded, then the return.
StdCleanup ==
  /\ pc = "cleanup"
  /\ \E out \in ExecOutcomes : Settle(out)
  /\ result' = StdSuccess(req, stdout, stderr)
  /\ pc' = "returned"
  /\ UNCHANGED <<mountCleanup, stdout, stderr, stdUnused>>

\* The same in the catch block, then its return.
StdCatchCleanup ==
  /\ pc = "catchCleanup"
  /\ \E out \in ExecOutcomes : Settle(out)
  /\ result' = StdFailure(execs[1].out)
  /\ pc' = "returned"
  /\ UNCHANGED <<mountCleanup, stdout, stderr, stdUnused>>

StdNext ==
  \/ StdPrepare
  \/ StdPrepareFail
  \/ StdExecOk
  \/ StdExecFail
  \/ StdCleanup
  \/ StdCatchCleanup

StdSpec == StdInit /\ [][StdNext]_vars

\* ------------------------------------------------- properties of the script

\* Positions of the stages in a composed script with a mount.
InstallPos == Len(<<Shebang, SetPlusE>>) + 1
MountPos(r) == Len(MountHead(r))
UserStagePos(r) == UserFirst(r) - Len(UserStageHead(r))

\* Position p of the script has been executed; LogIndex(p) is when.
Executed(p) == \E k \in 1..Len(ran) : ran[k].i = p
LogIndex(p) == CHOOSE k \in 1..Len(ran) : ran[k].i = p

\* The script came to its end by itself: no kill ended it.
ExitedByItself == ctr \in {"exited", "removed"} /\ ~killed

RECURSIVE Payloads(_, _)
Payloads(frames, tag) ==
  IF frames = <<>> THEN <<>>
  ELSE (IF Head(frames)[1] = tag THEN Slice8(Head(frames)) ELSE <<>>)
       \o Payloads(Tail(frames), tag)

\* Everything the container has written to its stderr so far, delivered to
\* the handler or still on its way.
WrittenStderr == stderr \o Payloads(streamQ, StderrTag)

Contains(bytes, sub) ==
  \E k \in 0..(Len(bytes) - Len(sub)) : SubSeq(bytes, k + 1, k + Len(sub)) = sub

\* C1: with runAsRoot false, every line of the user script that is executed
\* is executed by the unprivileged identity, never by root (stated for the
\* containers in which that identity exists).
C1_UserLinesNeverRunAsRoot ==
  (~req.runAsRoot /\ userUid # 0) =>
    \A k \in 1..Len(ran) : ran[k].i \in UserPositions(req) => ran[k].as = "activepieces"

\* C2: with a mount, a failed install and a failed mount each leave a
\* diagnostic on stderr and do not end the script: it goes on to the user
\* stage, which has been executed whenever the script ended by itself.
C2_UserStageReachedWhateverMountDoes ==
  HasMount(req) =>
    /\ install = "failed" => Contains(WrittenStderr, WarningBytes)
    /\ mount = "failed" => Contains(WrittenStderr, MountErrorBytes)
    /\ mount # "pending" => (ip >= UserStagePos(req) /\ (ctr = "running" \/ killed \/ Executed(UserStagePos(req))))
    /\ ExitedByItself => Executed(UserStagePos(req))

C2_Witness ==
  /\ HasMount(req)
  /\ install = "failed"
  /\ mount = "failed"
  /\ ExitedByItself
  /\ Executed(UserFirst(req))

\* C3: with a mount, a script that ended by itself has executed install,
\* mount, user stage and unmount, in that order.
C3_UnmountAlwaysAfterUserScript ==
  (HasMount(req) /\ ExitedByItself) =>
    /\ Executed(InstallPos) /\ Executed(MountPos(req))
    /\ Executed(UserStagePos(req)) /\ Executed(UmountPos(req))
    /\ LogIndex(InstallPos) < LogIndex(MountPos(req))
    /\ LogIndex(MountPos(req)) < LogIndex(UserStagePos(req))
    /\ LogIndex(UserStagePos(req)) < LogIndex(UmountPos(req))

\* The exit status of the lines run as a script of their own, after status
\* st (-1: they never end).
RECURSIVE ExitOf(_, _)
ExitOf(lines, st) ==
  IF lines = <<>> THEN st
  ELSE IF Head(lines) = "exit 3" THEN 3
  ELSE IF Head(lines) = "sleep infinity" THEN -1
  ELSE ExitOf(Tail(lines),
              IF Head(lines) = "false" THEN 1
              ELSE IF Head(lines) = Terminator THEN 127
              ELSE IF Head(lines) = "echo hi" THEN 0
              ELSE st)

\* The user script was handed to a shell: root's own, or the one of su.
UserScriptRun == Executed(UserStagePos(req)) /\ (req.runAsRoot \/ userUid # 0)

NoTerminatorLine(r) ==
  \A k \in 1..Len(r.command) : r.command[k] # Terminator

\* C4: the exit status of the composed script is the exit status of the user
\* script (stated for user scripts that hold no line EOF).
C4_ExitCodeIsUserExitCode ==
  (ExitedByItself /\ UserScriptRun /\ NoTerminatorLine(req)) =>
    ctrExit = ExitOf(cleanedCommand(req.command), 0)

\* ------------------------------------------------- properties of the engine

Invoked(op) == \E k \in 1..Len(calls) : calls[k] = op

\* C5: a run whose container ended by itself, with the exit status of the
\* user script, returns a result whose success flag tells whether that status
\* was zero, and which carries a non-zero status.
C5_SuccessOnlyOnZeroExit ==
  (pc = "returned" /\ ~killed /\ UserScriptRun /\ NoTerminatorLine(req)) =>
    /\ result.success = (ctrExit = 0)
    /\ ctrExit # 0 => ("exitCode" \in DOMAIN result /\ result.exitCode = ctrExit)

\* C6: the result of a run that the timer's kill ended is marked
\* timedOut = true and carries no exit code.
C6_TimedOutResultIsMarked ==
  (pc = "returned" /\ killed) =>
    /\ "timedOut" \in DOMAIN result /\ result.timedOut = TRUE
    /\ "exitCode" \notin DOMAIN result

\* C7: once the container has been started the invocation ends, by returning
\* or throwing.
C7_StartedInvocationEnds == (pc = "wait") ~> Done

\* C8: when the result is built no chunk is still on its way to the 'data'
\* handler.
C8_NoChunkAfterResult == pc = "returned" => streamQ = <<>>

\* C9: an invocation that has ended leaves no container behind: what it
\* created has been deleted.
C9_NoContainerLeftBehind == (Done /\ Invoked("attach")) => ctr = "removed"

\* C10: when the image is not local and its pull fails, the invocation throws
\* having invoked inspect and pull only: no container exists and nothing of
\* the script has run; create is invoked only for a resolved image.
C10_UnresolvedImageAborts ==
  /\ image = "unresolved" =>
       /\ pc = "thrown" /\ thrown # ""
       /\ calls = <<"inspect", "pull">>
       /\ ctr = "none" /\ ip = 0 /\ ran = <<>>
  /\ Invoked("create") => image \in {"local", "pulled"}

C10_Witness ==
  /\ image = "unresolved"
  /\ pc = "thrown"
  /\ thrown = ImageError

\* C11: after the container has been started, the only error that makes the
\* invocation throw is the unreachable control plane; a failed wait is
\* captured into a returned result.
C11_OnlySocketErrorThrowsOnceStarted ==
  (pc = "thrown" /\ Invoked("wait")) => thrown = SocketError

\* C12: once every chunk has been delivered, whatever the interleaving of
\* stdout and stderr frames and however the stream was cut into chunks, the
\* stdout buffer is the payloads of the stdout frames in order and the stderr
\* buffer those of the stderr frames, with no header byte in either.
C12_BuffersAreThePayloads ==
  (wire # <<>> /\ streamQ = <<>>
   /\ \A i \in 1..Len(wire) : wire[i][1] \in {StdoutTag, StderrTag}) =>
    /\ stdout = Payloads(wire, StdoutTag)
    /\ stderr = Payloads(wire, StderrTag)

\* C13: the embedded copy of a script text is the text without its first
\* line when that line is an interpreter directive, and the whole text
\* otherwise: no other line is removed.
C13_OnlyLeadingDirectiveRemoved ==
  (pc = "inspect" /\ calls = <<"inspect">>) =>
    embedded = (IF IsDirective(Head(req.command))
                THEN Tail(req.command) ELSE req.command)

\* What activepieces may run as root: the grants of the bootstrap command,
\* once it has run, and of the statements of the script root has executed.
Granted ==
  UNION ({Grants(BootstrapCmd[i]) : i \in 1..(IF ip >= 1 THEN Len(BootstrapCmd) ELSE 0)}
         \cup {Grants(Script[ran[k].i]) : k \in {j \in 1..Len(ran) : ran[j].as = "root"}})

C15_UserUidIs1001 ==
  (~req.runAsRoot /\ \E k \in 1..Len(ran) :
      ran[k].i \in UserPositions(req) /\ ran[k].as = "activepieces") =>
    userUid = 1001

\* C16: in the standard action with a mount, once the command has been
\* composed and run() has returned, the unmount has been executed exactly
\* once, after the command, whether the command succeeded, failed or timed
\* out; the result is the one the command's outcome gives, whatever the
\* unmount's own outcome.
C16_UnmountOnceBeforeReturn ==
  (HasMount(req) /\ execs # <<>> /\ pc = "returned") =>
    /\ Len(execs) = 2
    /\ execs[1].cmd = StdFullCommand(req)
    /\ execs[2].cmd = StdMountCleanup(req)
    /\ execs[1].out # "pending" /\ execs[2].out # "pending"
    /\ result = (IF execs[1].out = "ok"
                 THEN StdSuccess(req, stdout, stderr)
                 ELSE StdFailure(execs[1].out))

C16_Witness ==
  /\ HasMount(req)
  /\ pc = "returned"
  /\ Len(execs) = 2
  /\ execs[1].out = "timeout"
  /\ execs[2].out = "failed"
  /\ result = StdFailure("timeout")

\* Every isolation-layer operation of the pipeline invoked so far, in order
\* (the timer's kill is no step of the pipeline).
PipelineCalls == SelectSeq(calls, LAMBDA op : op # "kill")

IsPrefix(s, t) == Len(s) <= Len(t) /\ SubSeq(t, 1, Len(s)) = s

\* C17: the timer firing on a container that is no longer running leaves the
\* invocation as it is: the failure of the kill is caught, run() is where it
\* was, nothing is thrown and the output and the container are untouched.
C17_LateKillIsIgnored ==
  [][(timer = "armed" /\ timer' = "fired" /\ ctr # "running") =>
       /\ killError' = NotRunning
       /\ UNCHANGED <<pc, thrown, result, stdout, stderr, streamQ>>
       /\ UNCHANGED <<ctr, ctrExit, killed>>]_vars

C17_Witness ==
  /\ killError = NotRunning
  /\ ctrExit = 0
  /\ ~killed
  /\ pc = "returned"
  /\ result.stdout = HiBytes

\* C18: the timer is armed while the image is resolved and the container is
\* created, attached and started.
C18_TimerArmedBeforeStart ==
  pc \in {"pull", "create", "attach", "start"} => timer = "armed"

\* C19: the operations of the pipeline are invoked in the order inspect,
\* pull (only after an inspect that failed), create, attach, start, wait,
\* none of them twice; create only for an image found or pulled.
C19_OperationsInFixedOrderOnce ==
  /\ \/ IsPrefix(PipelineCalls, <<"inspect", "create", "attach", "start", "wait">>)
     \/ IsPrefix(PipelineCalls, <<"inspect", "pull", "create", "attach", "start", "wait">>)
  /\ Invoked("pull") = (image \in {"pulled", "unresolved"} \/ pc = "pull")
  /\ Invoked("create") = (image \in {"local", "pulled"})

C19_Witness ==
  /\ PipelineCalls = <<"inspect", "pull", "create", "attach", "start", "wait">>
  /\ pc = "returned"

\* C20: a chunk that is one whole frame whose selector is neither 1 nor 2 is
\* handled as a stdout frame is: its payload, without the header, is appended
\* to the stdout buffer and the stderr buffer stays.
C20_UnknownTagPayloadToStdout ==
  [][(streamQ # <<>> /\ streamQ' = Tail(streamQ) /\ Head(streamQ) \in Frames
      /\ Head(streamQ)[1] \notin {StdoutTag, StderrTag}) =>
       /\ stdout' = stdout \o Slice8(Head(streamQ))
       /\ stderr' = stderr]_vars

\* The options the mount command is to carry for request r.
ExpectedMountOptions(r) ==
  IF r.mountType = "nfs"
  THEN (IF r.mountOptions # "" THEN r.mountOptions ELSE "rw,sync")
  ELSE (IF r.mountOptions # "" THEN r.mountOptions ELSE "rw")
       \o (IF r.mountUsername = "" THEN ""
           ELSE ",username=" \o r.mountUsername
                \o (IF r.mountPassword = "" THEN ""
                    ELSE ",password=" \o r.mountPassword))

\* C21: the mount statement of a composed script carries the supplied
\* options, or rw,sync (NFS) or rw (SMB) when none are supplied; for NFS
\* nothing else, for SMB also username= when a username is supplied and
\* password= when a username and a password are.
C21_MountOptionsAndCredentials ==
  (HasMount(req) /\ composed # <<>>) =>
    composed[MountPos(req)] =
      "if mount -t " \o (IF req.mountType = "nfs" THEN "nfs" ELSE "cifs")
        \o " -o " \o ExpectedMountOptions(req)
        \o " " \o req.mountSource \o " " \o req.mountPoint
        \o "; then : ; else echo [Error] >&2; fi"

C21_Witness ==
  /\ HasMount(req)
  /\ req.mountType = "nfs"
  /\ req.mountUsername # "" /\ req.mountPassword # ""
  /\ req.mountOptions = ""
  /\ composed # <<>>
  /\ pc = "create"

\* C22: an install stage that did not install the package, because the
\* install failed or because no package manager was found, has left a
\* warning on stderr.
C22_FailedInstallAlwaysWarns ==
  install \in {"failed", "nopm"} => Contains(WrittenStderr, WarningBytes)

\* C23: with runAsRoot false, in a container where the user activepieces
\* could not be created, no line of the user script is executed.
C23_NoUserNoUserScript ==
  (~req.runAsRoot /\ ip >= 1 /\ userUid = 0) =>
    \A k \in 1..Len(ran) : ran[k].i \notin UserPositions(req)

\* The forced terminations issued so far.
KillCount == Len(SelectSeq(calls, LAMBDA op : op = "kill"))

\* C24: when the invocation ends the timer is no longer armed, no kill is
\* issued once it has ended, and at most one kill is issued in all.
C24_TimerCancelledAtEnd ==
  [][/\ Done' => timer' # "armed"
     /\ Done => KillCount' = KillCount
     /\ KillCount' <= 1]_vars

C24_Witness ==
  /\ pc = "thrown"
  /\ Invoked("wait")
  /\ timer = "cleared"
  /\ ctr = "running"

====
